---- MODULE Spec2Model ----
(***************************************************************************)
(* Model of the mantau transformation engine (src/mantau.go, the engine    *)
(* configured through Options/SetOpt).                                     *)
(*                                                                         *)
(* Go values are records tagged by k:                                      *)
(*   "nil"     the nil interface value                                     *)
(*   "nilptr"  a typed nil pointer held in a non-nil interface             *)
(*   "ptr"     a non-nil pointer, e its pointee                            *)
(*   "other"   an opaque scalar of Go type t; v = 0 is the zero value      *)
(*   "struct"  a struct of type ty (see StructType), f its field values    *)
(*   "map"     a map with string keys, m its entries                       *)
(*   "slice", "array"  a collection, e its elements                        *)
(* Values returned by the engine add:                                      *)
(*   "result"  a non-nil Result, m its entries                             *)
(*   "list"    a non-nil []interface{}, e its elements                     *)
(*   "nilresult", "nillist"  the nil Result and the nil []interface{}      *)
(***************************************************************************)
EXTENDS Integers, Sequences, FiniteSets, TLC

VARIABLES opt, pc, op, src, schema, out, lastSetOpt, eng, proc, midflight, overlap

\* the caller that makes one call at a time
svars == <<opt, pc, op, src, schema, out, lastSetOpt>>

\* the goroutines that call Transform concurrently
cvars == <<eng, proc, midflight, overlap>>

vars == <<opt, pc, op, src, schema, out, lastSetOpt, eng, proc, midflight, overlap>>

----------------------------------------------------------------------------
(* Bounds *)

\* longest slice or array of the input universe
MaxLen == 2

----------------------------------------------------------------------------
(* Data types, src/mantau.go:43-51 *)

Struct == "struct"
Map == "map"
Slice == "slice"
Array == "array"
Pointer == "pointer"
Other == "other"
Nil == "nil"

----------------------------------------------------------------------------
(* Go values *)

NilV == [k |-> "nil"]
NilPtr == [k |-> "nilptr"]
NilResult == [k |-> "nilresult"]
NilList == [k |-> "nillist"]

Scalar(t, v) == [k |-> "other", t |-> t, v |-> v]
PtrTo(x) == [k |-> "ptr", e |-> x]
StructV(ty, f) == [k |-> "struct", ty |-> ty, f |-> f]
MapV(m) == [k |-> "map", m |-> m]
SliceV(e) == [k |-> "slice", e |-> e]
ArrayV(e) == [k |-> "array", e |-> e]
ResultV(m) == [k |-> "result", m |-> m]
\* a slice of the static element type et, as []string
SliceOfV(et, e) == [k |-> "slice", e |-> e, et |-> et]
ListV(e) == [k |-> "list", e |-> e]

\* the empty map literal Result{} / the nil map: no entries
NoEntries == [x \in {} |-> NilV]

\* errors: NoErr is the nil error; Panic stands for a run-time panic that
\* unwinds the whole call (no value is returned to the caller)
NoErr == "nil"
ErrUnknownType == "Uknown source type"
ErrNoField == "Cannot find the field"
ErrNoTag == "Cannot find tag"
Panic == "panic"

Ret(res, err) == [res |-> res, err |-> err]

----------------------------------------------------------------------------
(* Struct types.  A field has a name, is exported or not, and carries a    *)
(* struct tag: a partial map from tag name to annotation.                  *)

FieldDecl(name, exported, tags) == [Name |-> name, Exported |-> exported, Tag |-> tags]

NoTags == [x \in {} |-> ""]

\* Pair: like the test types, every field annotated under "json"; only the
\*   first field annotated under "schema".
\* Box:  one field, annotated under both tag names.
\* Time: time.Time, three unexported fields without annotation.
StructType ==
  [ Pair |-> << FieldDecl("F1", TRUE, [json |-> "a", schema |-> "b"]),
                FieldDecl("F2", TRUE, [json |-> "b"]) >>,
    Box  |-> << FieldDecl("F1", TRUE, [json |-> "a", schema |-> "a"]) >>,
    Time |-> << FieldDecl("wall", FALSE, NoTags),
                FieldDecl("ext", FALSE, NoTags),
                FieldDecl("loc", FALSE, NoTags) >> ]

\* reflect.StructTag.Lookup
TagLookupRaw(field, name) ==
  IF name \in DOMAIN field.Tag
    THEN [tag |-> field.Tag[name], ok |-> TRUE]
    ELSE [tag |-> "", ok |-> FALSE]

\* reflect.Type.FieldByName
FieldByName(ty, fieldName) ==
  LET idx == {i \in 1..Len(StructType[ty]) : StructType[ty][i].Name = fieldName}
  IN  IF idx = {} THEN [ok |-> FALSE, field |-> FieldDecl("", FALSE, NoTags)]
      ELSE [ok |-> TRUE, field |-> StructType[ty][CHOOSE i \in idx : TRUE]]

----------------------------------------------------------------------------
(* Iteration order of Go maps.  Ranging over a map visits the keys in an   *)
(* order the run time chooses; ord selects one for the ranges over the     *)
(* keys of a source map (srcValue.MapKeys()) and, independently, one for   *)
(* the ranges over the entries of a schema.                                *)

KeyRank == [a |-> 1, b |-> 2, c |-> 3]

Directions == {"asc", "desc"}

Orders == [keys : Directions, entries : Directions]

RECURSIVE KeySeqAsc(_)
KeySeqAsc(S) ==
  IF S = {} THEN << >>
  ELSE LET x == CHOOSE y \in S : \A z \in S : KeyRank[y] <= KeyRank[z]
       IN  << x >> \o KeySeqAsc(S \ {x})

Reverse(s) == [i \in 1..Len(s) |-> s[Len(s) + 1 - i]]

KeyOrder(S, dir) == IF dir = "asc" THEN KeySeqAsc(S) ELSE Reverse(KeySeqAsc(S))

----------------------------------------------------------------------------
(* Schema: isNil tells the nil Schema from an empty one; ent maps an       *)
(* output key to a SchemaField [Key, Value]; Value is NoSchema when it     *)
(* does not hold a Schema.                                                 *)

NoSchema == [has |-> FALSE]
HasSchema(s) == [has |-> TRUE, s |-> s]
SchemaField(key, value) == [Key |-> key, Value |-> value]
SchemaOf(ent) == [isNil |-> FALSE, ent |-> ent]
NilSchema == [isNil |-> TRUE, ent |-> [x \in {} |-> SchemaField("", NoSchema)]]

----------------------------------------------------------------------------
(* The engine, src/mantau.go:69-337.  tag is m.opt.StructTag.              *)

RECURSIVE transformValue(_, _, _, _, _)
RECURSIVE transformStruct(_, _, _, _)
RECURSIVE transformCollections(_, _, _, _)
RECURSIVE transformMap(_, _, _, _)
RECURSIVE structLoop(_, _, _, _, _, _, _)
RECURSIVE collectionLoop(_, _, _, _, _, _)
RECURSIVE mapLoop(_, _, _, _, _, _, _, _)

\* mutant: arrays are classified as slices
getDataTypeArrayAsSlice(s) ==
  IF s = NilV THEN Nil
  ELSE CASE s.k = "struct" -> Struct
         [] s.k \in {"map", "result"} -> Map
         [] s.k \in {"slice", "list", "array"} -> Slice
         [] s.k \in {"ptr", "nilptr"} -> Pointer
         [] OTHER -> Other

\* mutant: a nil pointer is classified Nil, like the nil interface value
getDataTypeNilPtrIsNil(s) ==
  IF s = NilV \/ s = NilPtr THEN Nil
  ELSE CASE s.k = "struct" -> Struct
         [] s.k \in {"map", "result"} -> Map
         [] s.k \in {"slice", "list"} -> Slice
         [] s.k = "array" -> Array
         [] s.k = "ptr" -> Pointer
         [] OTHER -> Other

\* mutant: only the built-in map and slice types are recognised, the named
\* types Result and []interface{} fall to Other
getDataTypeBuiltinOnly(s) ==
  IF s = NilV THEN Nil
  ELSE CASE s.k = "struct" -> Struct
         [] s.k = "map" -> Map
         [] s.k = "slice" -> Slice
         [] s.k = "array" -> Array
         [] s.k \in {"ptr", "nilptr"} -> Pointer
         [] OTHER -> Other

\* Get the input data type for further processing; a Result fed back as a
\* source is of a map type, a []interface{} of a slice type
getDataType(s) ==
  IF s = NilV THEN Nil
  ELSE CASE s.k = "struct" -> Struct
         [] s.k \in {"map", "result"} -> Map
         [] s.k \in {"slice", "list"} -> Slice
         [] s.k = "array" -> Array
         [] s.k \in {"ptr", "nilptr"} -> Pointer
         [] OTHER -> Other

\* Get the original value of pointer type
getValue(s) == IF s.k = "ptr" THEN s.e ELSE s

\* mutant: the zero test is inverted, every non-nil pointer yields nil
getPtrValueNil(s) == NilV

\* Get the original value of pointer: nil for the nil pointer (the only
\* pointer reflect.Value.IsZero reports as zero), the pointee otherwise
getPtrValue(s) == IF s.k = "nilptr" THEN NilV ELSE s.e

\* Check if source is the type of built-in struct type such as time.Time
isCustomStruct(s) == s.k = "struct" /\ s.ty = "Time"

\* mutant: a missing annotation is reported before the empty tag is
\* looked at
tagLookupStrict(ty, fieldName, tag) ==
  LET fb == FieldByName(ty, fieldName)
      lk == TagLookupRaw(fb.field, tag)
  IN  IF ~fb.ok THEN [tag |-> "", err |-> ErrNoField]
      ELSE IF ~lk.ok THEN [tag |-> "", err |-> ErrNoTag]
      ELSE [tag |-> lk.tag, err |-> NoErr]

\* Find struct tag based on the field name
tagLookup(ty, fieldName, tag) ==
  LET fb == FieldByName(ty, fieldName)
      lk == TagLookupRaw(fb.field, tag)
  IN  IF ~fb.ok THEN [tag |-> "", err |-> ErrNoField]
      ELSE IF lk.tag = "" THEN [tag |-> "", err |-> NoErr]
      ELSE IF ~lk.ok THEN [tag |-> "", err |-> ErrNoTag]
      ELSE [tag |-> lk.tag, err |-> NoErr]

\* mutant: every schema entry matches every source element
keyMatchesAny(key, name) == TRUE

\* v.Key == tag, v.Key == mapValue.String()
keyMatches(key, name) == key = name

\* mutant: the nested schema of the entry is ignored
schemaScopeEnclosing(v, enclosing) == enclosing

\* schemaValue := schema; if s, ok := v.Value.(Schema); ok { schemaValue = s }
schemaScope(v, enclosing) == IF v.Value.has THEN v.Value.s ELSE enclosing

\* mutant: the Result is replaced by the new entry instead of extended
setKeyOnly(m, key, value) == [x \in {key} |-> value]

\* mutant: only the first assignment to a Result is stored
setKeyFirst(m, key, value) ==
  IF m = NoEntries THEN [x \in {key} |-> value] ELSE m

\* result[k] = value
setKey(m, key, value) ==
  [x \in (DOMAIN m) \cup {key} |-> IF x = key THEN value ELSE m[x]]

\* mutant: an empty Result does not count as a Result
isResultNonEmpty(value) == value.k = "result" /\ value.m # NoEntries

\* res, ok := value.(Result)
isResult(value) == value.k \in {"result", "nilresult"}

\* mutant: zero-valued scalars are not appended
keepElementNonZero(fieldValueType, value) ==
  (fieldValueType = Other /\ value.v # 0) \/ isResult(value)

\* mutant: only Results are appended, scalars are dropped
keepElementResultOnly(fieldValueType, value) == isResult(value)

\* an element is appended when it is a scalar or its transform is a Result
keepElement(fieldValueType, value) == fieldValueType = Other \/ isResult(value)

\* mutant: a nil pointer transforms to an empty Result instead of nil
transformValueNilAsEmpty(s, t, f, tag, ord) ==
  IF t = Other THEN Ret(s, NoErr)
  ELSE CASE t = Struct ->
              IF isCustomStruct(s) THEN Ret(s, NoErr)
              ELSE transformStruct(s, f, tag, ord)
         [] t = Slice -> transformCollections(s, f, tag, ord)
         [] t = Array -> transformCollections(s, f, tag, ord)
         [] t = Map -> transformMap(s, f, tag, ord)
         [] t = Pointer ->
              LET value == getPtrValue(s)
              IN  transformValue(value, getDataType(value), f, tag, ord)
         [] OTHER -> Ret(ResultV(NoEntries), NoErr)

\* mutant: a map is passed through whole instead of being projected
transformValuePassMap(s, t, f, tag, ord) ==
  IF t = Other THEN Ret(s, NoErr)
  ELSE CASE t = Struct ->
              IF isCustomStruct(s) THEN Ret(s, NoErr)
              ELSE transformStruct(s, f, tag, ord)
         [] t = Slice -> transformCollections(s, f, tag, ord)
         [] t = Array -> transformCollections(s, f, tag, ord)
         [] t = Map -> Ret(ResultV(s.m), NoErr)
         [] t = Pointer ->
              LET value == getPtrValue(s)
              IN  transformValue(value, getDataType(value), f, tag, ord)
         [] OTHER -> Ret(NilV, NoErr)

\* Transform individual value with a given schema
transformValue(s, t, f, tag, ord) ==
  IF t = Other THEN Ret(s, NoErr)
  ELSE CASE t = Struct ->
              IF isCustomStruct(s) THEN Ret(s, NoErr)
              ELSE transformStruct(s, f, tag, ord)
         [] t = Slice -> transformCollections(s, f, tag, ord)
         [] t = Array -> transformCollections(s, f, tag, ord)
         [] t = Map -> transformMap(s, f, tag, ord)
         [] t = Pointer ->
              LET value == getPtrValue(s)
              IN  transformValue(value, getDataType(value), f, tag, ord)
         [] OTHER -> Ret(NilV, NoErr)

\* the two nested loops of transformStruct: field i, then the j-th schema
\* entry in the order ks of this range over the schema
structLoop(s, sch, tag, ord, i, j, result) ==
  LET ks == KeyOrder(DOMAIN sch.ent, ord.entries)
      decl == StructType[s.ty]
  IN  IF i > Len(decl) THEN Ret(ResultV(result), NoErr)
      ELSE IF j > Len(ks) THEN structLoop(s, sch, tag, ord, i + 1, 1, result)
      ELSE
        LET k == ks[j]
            v == sch.ent[k]
            tl == tagLookup(s.ty, decl[i].Name, tag)
        IN  IF tl.err # NoErr THEN Ret(NilResult, tl.err)
            ELSE IF ~keyMatches(v.Key, tl.tag)
              THEN structLoop(s, sch, tag, ord, i, j + 1, result)
            \* reflect.Value.Interface panics on an unexported field
            ELSE IF ~decl[i].Exported THEN Ret(NilResult, Panic)
            ELSE
              LET fieldValue == s.f[i]
                  fieldValueType == getDataType(fieldValue)
              IN  IF fieldValueType = Nil
                    THEN structLoop(s, sch, tag, ord, i, j + 1, result)
                  ELSE
                    LET r == transformValue(fieldValue, fieldValueType,
                                            schemaScope(v, sch), tag, ord)
                    IN  IF r.err # NoErr THEN Ret(NilResult, r.err)
                        ELSE structLoop(s, sch, tag, ord, i, j + 1,
                                        setKey(result, k, r.res))

\* Transforming a struct with the given schema
transformStruct(s, sch, tag, ord) ==
  IF s = NilV THEN Ret(NilResult, NoErr)
  ELSE structLoop(getValue(s), sch, tag, ord, 1, 1, NoEntries)

\* the loop of transformCollections over the elements
collectionLoop(s, sch, tag, ord, i, result) ==
  IF i > Len(s.e) THEN Ret(ListV(result), NoErr)
  ELSE
    LET fieldValue == s.e[i]
        fieldValueType == getDataType(fieldValue)
    IN  IF fieldValueType = Nil
          THEN collectionLoop(s, sch, tag, ord, i + 1, result)
        ELSE
          LET r == transformValue(fieldValue, fieldValueType, sch, tag, ord)
          IN  IF r.err # NoErr THEN Ret(NilList, r.err)
              ELSE IF keepElement(fieldValueType, r.res)
                THEN collectionLoop(s, sch, tag, ord, i + 1, Append(result, r.res))
              ELSE collectionLoop(s, sch, tag, ord, i + 1, result)

\* mutant: no nil guard, a nil source yields an empty sequence
transformCollectionsNoNil(s, sch, tag, ord) ==
  IF s = NilV THEN Ret(ListV(<< >>), NoErr)
  ELSE collectionLoop(getValue(s), sch, tag, ord, 1, << >>)

\* Transforming a collections of data could be slice or array
transformCollections(s, sch, tag, ord) ==
  IF s = NilV THEN Ret(NilList, NoErr)
  ELSE collectionLoop(getValue(s), sch, tag, ord, 1, << >>)

\* the two nested loops of transformMap: the i-th map key in the order mks
\* of srcValue.MapKeys(), then the j-th schema entry
mapLoop(s, sch, tag, ord, mks, i, j, result) ==
  LET ks == KeyOrder(DOMAIN sch.ent, ord.entries)
  IN  IF i > Len(mks) THEN Ret(ResultV(result), NoErr)
      ELSE
        LET mapValue == mks[i]
            fieldValue == s.m[mapValue]
            fieldValueType == getDataType(fieldValue)
        IN  IF fieldValueType = Nil \/ j > Len(ks)
              THEN mapLoop(s, sch, tag, ord, mks, i + 1, 1, result)
            ELSE
              LET k == ks[j]
                  v == sch.ent[k]
              IN  IF ~keyMatches(v.Key, mapValue)
                    THEN mapLoop(s, sch, tag, ord, mks, i, j + 1, result)
                  ELSE
                    LET r == transformValue(fieldValue, fieldValueType,
                                            schemaScope(v, sch), tag, ord)
                    IN  IF r.err # NoErr THEN Ret(NilResult, r.err)
                        ELSE mapLoop(s, sch, tag, ord, mks, i, j + 1,
                                     setKey(result, k, r.res))

\* mutant: a Result without entry is returned as the nil Result
transformMapNilWhenEmpty(s, sch, tag, ord) ==
  IF s = NilV THEN Ret(NilResult, NoErr)
  ELSE LET r == mapLoop(getValue(s), sch, tag, ord,
                        KeyOrder(DOMAIN getValue(s).m, ord.keys), 1, 1, NoEntries)
       IN  IF r = Ret(ResultV(NoEntries), NoErr) THEN Ret(NilResult, NoErr) ELSE r

\* Transforming a map with the given schema
transformMap(s, sch, tag, ord) ==
  IF s = NilV THEN Ret(NilResult, NoErr)
  ELSE mapLoop(getValue(s), sch, tag, ord,
               KeyOrder(DOMAIN getValue(s).m, ord.keys), 1, 1, NoEntries)

\* mutant: a data type without a case is reported as an unknown type
executeRejectPointer(s, dataType, sch, tag, ord) ==
  IF s = NilV THEN Ret(NilV, NoErr)
  ELSE CASE dataType = Struct -> transformStruct(s, sch, tag, ord)
         [] dataType = Slice -> transformCollections(s, sch, tag, ord)
         [] dataType = Array -> transformCollections(s, sch, tag, ord)
         [] dataType = Map -> transformMap(s, sch, tag, ord)
         [] OTHER -> Ret(NilV, ErrUnknownType)

\* mutant: the case for arrays is missing
executeNoArray(s, dataType, sch, tag, ord) ==
  IF s = NilV THEN Ret(NilV, NoErr)
  ELSE CASE dataType = Struct -> transformStruct(s, sch, tag, ord)
         [] dataType = Slice -> transformCollections(s, sch, tag, ord)
         [] dataType = Map -> transformMap(s, sch, tag, ord)
         [] OTHER -> Ret(NilV, NoErr)

\* the types of the type switch of shouldSkipTransform, but time.Time
Primitives ==
  {"string", "bool", "int", "int8", "int16", "int32", "int64",
   "uint", "uint8", "uint16", "uint32", "uint64",
   "float32", "float64", "complex64", "complex128"}

\* Determine if the value doesn't need for further transforming (the
\* variant of the engine with getDataKind): a type switch on the dynamic
\* type of src
shouldSkipTransform(s) ==
  CASE s.k = "struct" -> s.ty = "Time"
    [] s.k = "other" -> s.t \in Primitives
    [] s.k = "slice" -> "et" \in DOMAIN s /\ s.et \in Primitives \cup {"time.Time"}
    [] OTHER -> FALSE

\* Begin the transforming process
execute(s, dataType, sch, tag, ord) ==
  IF s = NilV THEN Ret(NilV, NoErr)
  ELSE CASE dataType = Struct -> transformStruct(s, sch, tag, ord)
         [] dataType = Slice -> transformCollections(s, sch, tag, ord)
         [] dataType = Array -> transformCollections(s, sch, tag, ord)
         [] dataType = Map -> transformMap(s, sch, tag, ord)
         [] OTHER -> Ret(NilV, NoErr)

\* mutant: the source is returned next to the error
TransformErrKeepsValue(s, sch, tag, ord) ==
  LET dataType == getDataType(s)
  IN  IF dataType = Other THEN Ret(s, ErrUnknownType)
      ELSE execute(s, dataType, sch, tag, ord)

\* mutant: the check for an unknown source type is missing
TransformNoTypeCheck(s, sch, tag, ord) == execute(s, getDataType(s), sch, tag, ord)

\* Transform a data with the given schema
Transform(s, sch, tag, ord) ==
  LET dataType == getDataType(s)
  IN  IF dataType = Other THEN Ret(NilV, ErrUnknownType)
      ELSE execute(s, dataType, sch, tag, ord)

----------------------------------------------------------------------------
(* The inputs of the calls *)

Names == {"a", "b"}
TagNames == {"json", "schema"}

I0 == Scalar("int", 0)
S1 == Scalar("string", 1)
B1 == Scalar("bool", 1)
TimeV == StructV("Time", << Scalar("uint64", 0), Scalar("int64", 0), NilPtr >>)

Scalars == {I0, S1}

SeqsUpTo(X, n) == UNION {[1..l -> X] : l \in 0..n}

MapsOver(X) == {MapV(m) : m \in UNION {[D -> X] : D \in SUBSET Names}}
PairsOver(X) == {StructV("Pair", << x, y >>) : x \in X, y \in X}
BoxesOver(X) == {StructV("Box", << x >>) : x \in X}
CollectionsOver(X) == {SliceV(e) : e \in SeqsUpTo(X, MaxLen)}
                        \cup {ArrayV(e) : e \in SeqsUpTo(X, MaxLen)}

\* elements of collections
Elems == {NilV, NilPtr, S1, I0,
          StructV("Box", << S1 >>), StructV("Pair", << S1, I0 >>),
          MapV([a |-> S1]), PtrTo(StructV("Box", << I0 >>))}

\* values of struct fields and of map entries
Mid == {NilV, NilPtr, I0, S1, TimeV, PtrTo(I0), PtrTo(S1),
        StructV("Pair", << S1, I0 >>),
        StructV("Pair", << S1, StructV("Box", << S1 >>) >>),
        PtrTo(StructV("Pair", << S1, I0 >>)),
        PtrTo(MapV([a |-> S1])),
        MapV([a |-> StructV("Box", << S1 >>), b |-> I0]),
        SliceV(<< S1, I0 >>),
        ArrayV(<< StructV("Box", << S1 >>), S1 >>),
        SliceV(<< StructV("Pair", << S1, NilPtr >>), NilV, MapV([b |-> S1]) >>)}

\* collections with elements that are pointers to scalars, to structs and
\* to maps
PointerCollections ==
  {SliceV(<< PtrTo(S1) >>),
   SliceV(<< PtrTo(S1), S1 >>),
   ArrayV(<< I0, PtrTo(S1) >>),
   SliceV(<< PtrTo(StructV("Pair", << S1, I0 >>)), PtrTo(S1) >>),
   SliceV(<< PtrTo(MapV([a |-> S1])), PtrTo(StructV("Box", << S1 >>)) >>)}

\* slices of primitive scalars: []string{"s"}, []int{}, []time.Time{t}
TypedSlices == {SliceOfV("string", << S1 >>), SliceOfV("int", << >>),
                SliceOfV("time.Time", << TimeV >>)}

Sources == {NilV, NilPtr, I0, S1, B1, TimeV}
             \cup PairsOver(Mid) \cup BoxesOver(Mid) \cup MapsOver(Mid)
             \cup CollectionsOver(Elems) \cup PointerCollections
             \cup {PtrTo(x) : x \in {StructV("Pair", << S1, I0 >>),
                                     MapV([a |-> S1]), SliceV(<< S1 >>)}}
             \cup {PtrTo(S1), PtrTo(TimeV)} \cup TypedSlices

\* nested schemas
NestedSchemas == {SchemaOf([a |-> SchemaField("b", NoSchema)])}

SchemaFields == {SchemaField("", NoSchema)}
                  \cup {SchemaField(key, NoSchema) : key \in Names}
                  \cup {SchemaField(key, HasSchema(n)) : key \in Names, n \in NestedSchemas}

Schemas == {NilSchema}
             \cup {SchemaOf(ent) : ent \in UNION {[D -> SchemaFields] : D \in SUBSET Names}}

NoCall == "none"
NoOut == Ret(NilV, "none")

----------------------------------------------------------------------------
(* The state machine: a caller that holds one engine, a source and a       *)
(* schema, configures the engine and calls it.                             *)
(*   opt     m.opt.StructTag                                               *)
(*   pc      "ready": no call made yet or the last one consumed;           *)
(*           "done": a call has returned, op names it and out is what it   *)
(*           returned                                                      *)
(*   lastSetOpt  history: the StructTag of the Options passed to the most  *)
(*           recent SetOpt call, NoCall when SetOpt was never called       *)

\* the engines of the concurrent callers, and the callers
Engines == {"e1", "e2"}
Procs == {"p", "q"}

\* a goroutine that is not in a call
IdleProc ==
  [st |-> "idle", e |-> "e1", src |-> NilV, sch |-> NilSchema,
   ord |-> [keys |-> "asc", entries |-> "asc"], tag0 |-> "json",
   stack |-> << >>, ret |-> NoOut, res |-> NoOut, tags |-> {}]

\* New() for each engine; no call in flight
InitEngines ==
  /\ eng = [e \in Engines |-> "json"]
  /\ proc = [p \in Procs |-> IdleProc]
  /\ midflight = FALSE
  /\ overlap = FALSE

\* New(): the default options
Init ==
  /\ opt = "json"
  /\ pc = "ready"
  /\ op = NoCall
  /\ src \in Sources
  /\ schema \in Schemas
  /\ out = NoOut
  /\ lastSetOpt = NoCall
  /\ InitEngines

\* mutant: the new options are not stored
SetOptKeep(t) ==
  /\ pc = "ready"
  /\ opt' = opt
  /\ lastSetOpt' = t
  /\ UNCHANGED <<pc, op, src, schema, out>>
  /\ UNCHANGED cvars

\* Override the default mantau options
SetOpt(t) ==
  /\ pc = "ready"
  /\ opt' = t
  /\ lastSetOpt' = t
  /\ UNCHANGED <<pc, op, src, schema, out>>
  /\ UNCHANGED cvars

\* mutant: the call leaves the engine with the default options
CallTransformResetsOpt ==
  /\ pc = "ready"
  /\ \E ord \in Orders : out' = Transform(src, schema, opt, ord)
  /\ pc' = "done"
  /\ op' = "Transform"
  /\ opt' = "json"
  /\ UNCHANGED <<src, schema, lastSetOpt>>
  /\ UNCHANGED cvars

CallTransform ==
  /\ pc = "ready"
  /\ \E ord \in Orders : out' = Transform(src, schema, opt, ord)
  /\ pc' = "done"
  /\ op' = "Transform"
  /\ UNCHANGED <<opt, src, schema, lastSetOpt>>
  /\ UNCHANGED cvars

\* the unexported transformers called directly, as the tests do, with nil
\* or with a value of the kind they handle
CallTransformStruct ==
  /\ pc = "ready"
  /\ src = NilV \/ src.k = "struct"
  /\ \E ord \in Orders : out' = transformStruct(src, schema, opt, ord)
  /\ pc' = "done"
  /\ op' = "transformStruct"
  /\ UNCHANGED <<opt, src, schema, lastSetOpt>>
  /\ UNCHANGED cvars

CallTransformCollections ==
  /\ pc = "ready"
  /\ src = NilV \/ src.k \in {"slice", "array"}
  /\ \E ord \in Orders : out' = transformCollections(src, schema, opt, ord)
  /\ pc' = "done"
  /\ op' = "transformCollections"
  /\ UNCHANGED <<opt, src, schema, lastSetOpt>>
  /\ UNCHANGED cvars

CallTransformMap ==
  /\ pc = "ready"
  /\ src = NilV \/ src.k = "map"
  /\ \E ord \in Orders : out' = transformMap(src, schema, opt, ord)
  /\ pc' = "done"
  /\ op' = "transformMap"
  /\ UNCHANGED <<opt, src, schema, lastSetOpt>>
  /\ UNCHANGED cvars

\* true and false
Bool(b) == Scalar("bool", IF b THEN 1 ELSE 0)

\* shouldSkipTransform called directly on a new engine, as its test does;
\* it takes no schema
CallShouldSkipTransform ==
  /\ pc = "ready"
  /\ lastSetOpt = NoCall /\ schema = NilSchema
  /\ out' = Ret(Bool(shouldSkipTransform(src)), NoErr)
  /\ pc' = "done"
  /\ op' = "shouldSkipTransform"
  /\ UNCHANGED <<opt, src, schema, lastSetOpt>>
  /\ UNCHANGED cvars

\* the schema with, for each key k of the Result, one entry with output
\* key k and Key k
IdentitySchema(r) == SchemaOf([k \in DOMAIN r.m |-> SchemaField(k, NoSchema)])

\* the caller feeds the Result of a Transform back into Transform, with
\* the identity schema of that Result
Reproject ==
  /\ pc = "done" /\ op = "Transform"
  /\ out.err = NoErr /\ out.res.k = "result"
  /\ src' = out.res
  /\ schema' = IdentitySchema(out.res)
  /\ \E ord \in Orders : out' = Transform(out.res, IdentitySchema(out.res), opt, ord)
  /\ op' = "Reproject"
  /\ UNCHANGED <<opt, pc, lastSetOpt>>
  /\ UNCHANGED cvars

\* the caller has consumed the result and calls the engine again later
\* with the same source and schema
Return ==
  /\ pc = "done" /\ op # "Reproject"
  /\ pc' = "ready"
  /\ op' = NoCall
  /\ out' = NoOut
  /\ UNCHANGED <<opt, src, schema, lastSetOpt>>
  /\ UNCHANGED cvars

Next ==
  \/ \E t \in TagNames : SetOpt(t)
  \/ CallTransform
  \/ CallTransformStruct
  \/ CallTransformCollections
  \/ CallTransformMap
  \/ CallShouldSkipTransform
  \/ Reproject
  \/ Return

Spec == Init /\ [][Next]_vars

TypeOK ==
  /\ opt \in TagNames
  /\ pc \in {"ready", "done"}
  /\ src \in Sources \/ src.k = "result"
  /\ schema \in Schemas \/ schema = IdentitySchema(src)
  /\ lastSetOpt \in TagNames \cup {NoCall}

----------------------------------------------------------------------------
(* Transform step by step.  A call in flight is a goroutine with the stack *)
(* of the activations of transformValue, transformStruct,                  *)
(* transformCollections and transformMap; ret holds what the callee that   *)
(* has just returned handed to the activation on top, NoOut when the       *)
(* activation on top is running its own code.  One step runs the           *)
(* activation on top up to its next call, return or loop iteration; the    *)
(* step of transformStruct that looks a tag up reads m.opt.StructTag.      *)
(*   eng[e]     m.opt.StructTag of engine e                                *)
(*   proc[p]    the call of goroutine p: st is "idle", "run" or "done",    *)
(*              e the engine, src, sch the arguments, ord the iteration    *)
(*              orders of the run, res what the call returned;             *)
(*              history: tag0 the StructTag when the call started, tags    *)
(*              the StructTags its lookups have read                       *)
(*   midflight  history: SetOpt was called while a call was in flight      *)
(*   overlap    history: a call took a step while another was in flight    *)
(* Both histories start afresh when no call is left.                       *)

Top(pr) == pr.stack[Len(pr.stack)]

ValueFrame(s, t, f) == [fn |-> "transformValue", s |-> s, t |-> t, f |-> f]

StructFrame(s, sch) ==
  [fn |-> "transformStruct", s |-> s, sch |-> sch, i |-> 1, j |-> 1,
   result |-> NoEntries]

CollectionsFrame(s, sch) ==
  [fn |-> "transformCollections", s |-> s, sch |-> sch, i |-> 1,
   result |-> << >>]

MapFrame(s, sch, mks) ==
  [fn |-> "transformMap", s |-> s, sch |-> sch, mks |-> mks, i |-> 1, j |-> 1,
   result |-> NoEntries]

\* the activation on top returns r to its caller; Transform returns r when
\* it was the only one
returns(pr, r) ==
  IF Len(pr.stack) = 1
    THEN [pr EXCEPT !.st = "done", !.stack = << >>, !.ret = NoOut, !.res = r]
    ELSE [pr EXCEPT !.stack = SubSeq(@, 1, Len(@) - 1), !.ret = r]

\* the activation on top goes on as fr
continues(pr, fr) ==
  [pr EXCEPT !.stack = [@ EXCEPT ![Len(@)] = fr], !.ret = NoOut]

\* the activation on top calls the function of fr
calls(pr, fr) == [pr EXCEPT !.stack = Append(@, fr), !.ret = NoOut]

\* the frame of the transformer that handles a source of data type t
TransformerFrame(s, t, sch, ord) ==
  CASE t = Struct -> StructFrame(getValue(s), sch)
    [] t \in {Slice, Array} -> CollectionsFrame(getValue(s), sch)
    [] t = Map -> MapFrame(getValue(s), sch,
                           KeyOrder(DOMAIN getValue(s).m, ord.keys))

\* Transform individual value with a given schema
stepValue(pr) ==
  LET fr == Top(pr)
  IN  IF pr.ret # NoOut THEN returns(pr, pr.ret)
      ELSE IF fr.t = Other THEN returns(pr, Ret(fr.s, NoErr))
      ELSE IF fr.t = Struct /\ isCustomStruct(fr.s) THEN returns(pr, Ret(fr.s, NoErr))
      ELSE IF fr.t \in {Struct, Slice, Array, Map}
        THEN calls(pr, TransformerFrame(fr.s, fr.t, fr.f, pr.ord))
      ELSE IF fr.t = Pointer
        THEN LET value == getPtrValue(fr.s)
             IN  calls(pr, ValueFrame(value, getDataType(value), fr.f))
      ELSE returns(pr, Ret(NilV, NoErr))

\* Transforming a struct with the given schema: one iteration of the
\* inner loop, with the tag lookup under the StructTag tag
stepStruct(pr, tag) ==
  LET fr == Top(pr)
      ks == KeyOrder(DOMAIN fr.sch.ent, pr.ord.entries)
      decl == StructType[fr.s.ty]
  IN  IF pr.ret # NoOut
        THEN IF pr.ret.err # NoErr THEN returns(pr, Ret(NilResult, pr.ret.err))
             ELSE continues(pr, [fr EXCEPT !.j = @ + 1,
                                           !.result = setKey(@, ks[fr.j], pr.ret.res)])
      ELSE IF fr.i > Len(decl) THEN returns(pr, Ret(ResultV(fr.result), NoErr))
      ELSE IF fr.j > Len(ks) THEN continues(pr, [fr EXCEPT !.i = @ + 1, !.j = 1])
      ELSE
        LET v == fr.sch.ent[ks[fr.j]]
            tl == tagLookup(fr.s.ty, decl[fr.i].Name, tag)
            fieldValue == fr.s.f[fr.i]
            fieldValueType == getDataType(fieldValue)
            pl == [pr EXCEPT !.tags = @ \cup {tag}]
        IN  IF tl.err # NoErr THEN returns(pl, Ret(NilResult, tl.err))
            ELSE IF ~keyMatches(v.Key, tl.tag)
              THEN continues(pl, [fr EXCEPT !.j = @ + 1])
            ELSE IF ~decl[fr.i].Exported THEN returns(pl, Ret(NilResult, Panic))
            ELSE IF fieldValueType = Nil
              THEN continues(pl, [fr EXCEPT !.j = @ + 1])
            ELSE calls(pl, ValueFrame(fieldValue, fieldValueType,
                                      schemaScope(v, fr.sch)))

\* mutant: a nil element is skipped without moving to the next element
stepCollectionsStuck(pr) ==
  LET fr == Top(pr)
  IN  IF pr.ret # NoOut
        THEN IF pr.ret.err # NoErr THEN returns(pr, Ret(NilList, pr.ret.err))
             ELSE IF keepElement(getDataType(fr.s.e[fr.i]), pr.ret.res)
               THEN continues(pr, [fr EXCEPT !.i = @ + 1,
                                             !.result = Append(@, pr.ret.res)])
             ELSE continues(pr, [fr EXCEPT !.i = @ + 1])
      ELSE IF fr.i > Len(fr.s.e) THEN returns(pr, Ret(ListV(fr.result), NoErr))
      ELSE
        LET fieldValue == fr.s.e[fr.i]
            fieldValueType == getDataType(fieldValue)
        IN  IF fieldValueType = Nil THEN continues(pr, fr)
            ELSE calls(pr, ValueFrame(fieldValue, fieldValueType, fr.sch))

\* Transforming a collections of data could be slice or array: one
\* iteration of the loop
stepCollections(pr) ==
  LET fr == Top(pr)
  IN  IF pr.ret # NoOut
        THEN IF pr.ret.err # NoErr THEN returns(pr, Ret(NilList, pr.ret.err))
             ELSE IF keepElement(getDataType(fr.s.e[fr.i]), pr.ret.res)
               THEN continues(pr, [fr EXCEPT !.i = @ + 1,
                                             !.result = Append(@, pr.ret.res)])
             ELSE continues(pr, [fr EXCEPT !.i = @ + 1])
      ELSE IF fr.i > Len(fr.s.e) THEN returns(pr, Ret(ListV(fr.result), NoErr))
      ELSE
        LET fieldValue == fr.s.e[fr.i]
            fieldValueType == getDataType(fieldValue)
        IN  IF fieldValueType = Nil THEN continues(pr, [fr EXCEPT !.i = @ + 1])
            ELSE calls(pr, ValueFrame(fieldValue, fieldValueType, fr.sch))

\* Transforming a map with the given schema: one iteration of the inner
\* loop
stepMap(pr) ==
  LET fr == Top(pr)
      ks == KeyOrder(DOMAIN fr.sch.ent, pr.ord.entries)
  IN  IF pr.ret # NoOut
        THEN IF pr.ret.err # NoErr THEN returns(pr, Ret(NilResult, pr.ret.err))
             ELSE continues(pr, [fr EXCEPT !.j = @ + 1,
                                           !.result = setKey(@, ks[fr.j], pr.ret.res)])
      ELSE IF fr.i > Len(fr.mks) THEN returns(pr, Ret(ResultV(fr.result), NoErr))
      ELSE
        LET mapValue == fr.mks[fr.i]
            fieldValue == fr.s.m[mapValue]
            fieldValueType == getDataType(fieldValue)
        IN  IF fieldValueType = Nil \/ fr.j > Len(ks)
              THEN continues(pr, [fr EXCEPT !.i = @ + 1, !.j = 1])
            ELSE
              LET v == fr.sch.ent[ks[fr.j]]
              IN  IF ~keyMatches(v.Key, mapValue)
                    THEN continues(pr, [fr EXCEPT !.j = @ + 1])
                  ELSE calls(pr, ValueFrame(fieldValue, fieldValueType,
                                            schemaScope(v, fr.sch)))

\* one step of the activation on top
step(pr, tag) ==
  CASE Top(pr).fn = "transformValue" -> stepValue(pr)
    [] Top(pr).fn = "transformStruct" -> stepStruct(pr, tag)
    [] Top(pr).fn = "transformCollections" -> stepCollections(pr)
    [] Top(pr).fn = "transformMap" -> stepMap(pr)

\* Transform and execute, up to the call of a transformer
enter(pr) ==
  LET dataType == getDataType(pr.src)
  IN  IF dataType = Other
        THEN [pr EXCEPT !.st = "done", !.res = Ret(NilV, ErrUnknownType)]
      ELSE IF pr.src # NilV /\ dataType \in {Struct, Slice, Array, Map}
        THEN calls(pr, TransformerFrame(pr.src, dataType, pr.sch, pr.ord))
      ELSE [pr EXCEPT !.st = "done", !.res = Ret(NilV, NoErr)]

\* mutant: the options are those of the first engine, whatever the engine
currentTagShared(pr, engines) == engines["e1"]

\* mutant: the options are read once, when the call starts
currentTagAtStart(pr, engines) == pr.tag0

\* m.opt.StructTag, read at each lookup
currentTag(pr, engines) == engines[pr.e]

\* the engines a goroutine calls: q shares the engine of p or has its own
EnginesOf == [p |-> {"e1"}, q |-> {"e1", "e2"}]

\* goroutine p calls Transform with a source of S and a schema of T; the
\* run time ranges over the maps in an order of O
StartTransform(p, S, T, O) ==
  /\ proc[p].st = "idle"
  /\ \E s \in S, sch \in T, ord \in O, e \in EnginesOf[p] :
       proc' = [proc EXCEPT ![p] =
                  enter([IdleProc EXCEPT !.st = "run", !.e = e, !.src = s,
                                         !.sch = sch, !.ord = ord,
                                         !.tag0 = eng[e]])]
  /\ UNCHANGED <<eng, midflight, overlap>>
  /\ UNCHANGED svars

\* the call of goroutine p takes a step
Step(p) ==
  /\ proc[p].st = "run"
  /\ proc' = [proc EXCEPT ![p] = step(proc[p], currentTag(proc[p], eng))]
  /\ overlap' = (overlap \/ \E q \in Procs \ {p} : proc[q].st = "run")
  /\ UNCHANGED <<eng, midflight>>
  /\ UNCHANGED svars

\* goroutine p has consumed what its call returned
Finish(p) ==
  /\ proc[p].st = "done"
  /\ proc' = [proc EXCEPT ![p] = IdleProc]
  /\ midflight' = IF \A q \in Procs \ {p} : proc[q].st = "idle"
                    THEN FALSE ELSE midflight
  /\ overlap' = IF \A q \in Procs \ {p} : proc[q].st = "idle"
                  THEN FALSE ELSE overlap
  /\ UNCHANGED eng
  /\ UNCHANGED svars

\* Override the default mantau options, at any time: no lock is taken
SetOptOn(e, t) ==
  /\ eng' = [eng EXCEPT ![e] = t]
  /\ midflight' = (midflight \/ \E p \in Procs : proc[p].st = "run")
  /\ UNCHANGED <<proc, overlap>>
  /\ UNCHANGED svars

\* no caller of the sequential kind
InitCallers ==
  /\ opt = "json"
  /\ pc = "ready"
  /\ op = NoCall
  /\ src = NilV
  /\ schema = NilSchema
  /\ out = NoOut
  /\ lastSetOpt = NoCall
  /\ InitEngines

\* sources and schemas of one call followed step by step
TSources ==
  {NilV, NilPtr, S1, TimeV, PtrTo(StructV("Pair", << S1, I0 >>))}
    \cup BoxesOver(Mid) \cup PointerCollections
    \cup {StructV("Pair", << S1, x >>) : x \in Mid}
    \cup {MapV([a |-> x, b |-> S1]) : x \in Mid}
    \cup {ArrayV(<< StructV("Box", << PtrTo(x) >>), NilV >>) : x \in Mid}

TSchemas ==
  {NilSchema,
   SchemaOf([a |-> SchemaField("a", NoSchema), b |-> SchemaField("b", NoSchema)]),
   SchemaOf([a |-> SchemaField("b", HasSchema(SchemaOf([a |-> SchemaField("b", NoSchema)]))),
             b |-> SchemaField("a", NoSchema)]),
   SchemaOf([a |-> SchemaField("", NoSchema)])}

NextT ==
  \/ StartTransform("p", TSources, TSchemas, Orders)
  \/ Step("p")
  \/ Finish("p")
  \/ \E t \in TagNames : SetOptOn("e1", t)

\* a goroutine in a call keeps running
SpecT == InitCallers /\ [][NextT]_vars /\ WF_vars(Step("p"))

\* sources, schemas and orders of the concurrent calls
CSources ==
  {StructV("Pair", << S1, I0 >>),
   MapV([a |-> StructV("Box", << S1 >>), b |-> I0]),
   SliceV(<< PtrTo(StructV("Pair", << S1, I0 >>)), NilV >>)}

CSchemas ==
  {SchemaOf([a |-> SchemaField("a", NoSchema), b |-> SchemaField("b", NoSchema)])}

COrders == {[keys |-> "desc", entries |-> "asc"]}

NextC ==
  \/ \E p \in Procs : StartTransform(p, CSources, CSchemas, COrders)
  \/ \E p \in Procs : Step(p)
  \/ \E p \in Procs : Finish(p)
  \/ \E t \in TagNames : SetOptOn("e1", t)

SpecC == InitCallers /\ [][NextC]_vars

----------------------------------------------------------------------------
(* Vocabulary of the properties *)

Done(o) == pc = "done" /\ op = o

\* the error the call returned (a panic returns nothing)
Returned == out.err # Panic

IsRecord(s) == s.k = "struct" /\ ~isCustomStruct(s)

\* the field carries an annotation under the tag name
Annotated(ty, i, tag) == tag \in DOMAIN StructType[ty][i].Tag

\* the elements of a struct or a map as pairs <<external name, value>>; a
\* field that is not annotated under the tag name has the name ""
Elements(s, tag) ==
  IF s.k = "struct"
    THEN {<< IF Annotated(s.ty, i, tag) THEN StructType[s.ty][i].Tag[tag] ELSE "",
             s.f[i] >> : i \in 1..Len(s.f)}
  ELSE IF s.k = "map" THEN {<< key, s.m[key] >> : key \in DOMAIN s.m}
  ELSE {}

IsContainer(s) == s.k \in {"struct", "map"}

----------------------------------------------------------------------------
(* C1 *)

FlatSource(s, tag) ==
  \/ /\ IsRecord(s)
     /\ \A i \in 1..Len(s.f) : Annotated(s.ty, i, tag) /\ s.f[i].k = "other"
  \/ /\ s.k = "map"
     /\ \A key \in DOMAIN s.m : s.m[key].k = "other"

FlatSchema(sch) == \A k \in DOMAIN sch.ent : ~sch.ent[k].Value.has

\* C1: flat projection.  Transform of a struct whose fields all carry the
\* configured tag (or of a map), with scalar values, under a schema without
\* nested schema returns no error and a Result whose keys are exactly the
\* output keys of the entries whose Key is the external name of some
\* element, each mapped to that element's value unchanged.
C1_FlatProjection ==
  (Done("Transform") /\ FlatSource(src, opt) /\ FlatSchema(schema)) =>
    /\ out.err = NoErr
    /\ out.res.k = "result"
    /\ DOMAIN out.res.m =
         {k \in DOMAIN schema.ent :
            \E nv \in Elements(src, opt) : nv[1] = schema.ent[k].Key}
    /\ \A k \in DOMAIN out.res.m :
         \E nv \in Elements(src, opt) :
            nv[1] = schema.ent[k].Key /\ out.res.m[k] = nv[2]

\* a struct read under the custom tag name: one entry matched, one not
C1_Witness ==
  /\ Done("Transform") /\ FlatSource(src, opt) /\ FlatSchema(schema)
  /\ opt = "schema" /\ src.k = "struct"
  /\ Cardinality(DOMAIN out.res.m) = 1
  /\ Cardinality(DOMAIN schema.ent) = 2

----------------------------------------------------------------------------
(* C2 *)

RECURSIVE Closed(_, _)
\* every Result inside v has only output keys of the schema scope it was
\* produced under, sch being the scope of v itself
Closed(v, sch) ==
  CASE v.k = "result" ->
         /\ DOMAIN v.m \subseteq DOMAIN sch.ent
         /\ \A k \in DOMAIN v.m :
              Closed(v.m[k], IF sch.ent[k].Value.has THEN sch.ent[k].Value.s ELSE sch)
    [] v.k = "list" -> \A i \in 1..Len(v.e) : Closed(v.e[i], sch)
    [] OTHER -> TRUE

\* C2: projection closure.  Every Result produced by Transform, at the top
\* level or nested at any depth, has a key set included in the output keys
\* of the schema scope it was produced under.
C2_ProjectionClosure == Done("Transform") => Closed(out.res, schema)

\* a map with a key the schema does not name, and a Result nested in the
\* Result under a nested schema
C2_Witness ==
  /\ Done("Transform") /\ src.k = "map" /\ out.res.k = "result"
  /\ ~(DOMAIN src.m \subseteq DOMAIN schema.ent)
  /\ \E k \in DOMAIN out.res.m :
       /\ schema.ent[k].Value.has
       /\ out.res.m[k].k = "result"
       /\ out.res.m[k].m # NoEntries

----------------------------------------------------------------------------
(* C3 *)

\* C3: Transform of a top-level opaque scalar returns a non-nil error and
\* a nil result, for every schema, the nil schema included.
C3_ScalarRejected ==
  (Done("Transform") /\ src.k = "other") =>
    (Returned /\ out.err # NoErr /\ out.res = NilV)

C3_Witness ==
  Done("Transform") /\ src = B1 /\ schema = NilSchema /\ out.err = ErrUnknownType

----------------------------------------------------------------------------
(* C4 *)

\* C4: nil in, nil out.  Transform, transformStruct, transformCollections
\* and transformMap called with a nil source return a nil result (no empty
\* Result, no empty sequence) and a nil error.
C4_NilInNilOut ==
  (pc = "done" /\ src = NilV) =>
    /\ out.err = NoErr
    /\ op = "Transform" => out.res = NilV
    /\ op \in {"transformStruct", "transformMap"} => out.res = NilResult
    /\ op = "transformCollections" => out.res = NilList

C4_Witness ==
  /\ Done("transformCollections") /\ src = NilV
  /\ Cardinality(DOMAIN schema.ent) = 2
  /\ out = Ret(NilList, NoErr)

----------------------------------------------------------------------------
(* C5 *)

\* a call on a struct or a map that returned a Result
ReturnedResult ==
  /\ pc = "done" /\ op \in {"Transform", "transformStruct", "transformMap"}
  /\ (IsRecord(src) \/ src.k = "map")
  /\ out.err = NoErr /\ out.res.k = "result"

\* C5 as stated: an element whose value is nil, a nil interface value or a
\* nil pointer, never appears in the parent Result: every key of the Result
\* comes from a matched element that is neither.
C5_Original ==
  ReturnedResult =>
    \A k \in DOMAIN out.res.m :
       \E nv \in Elements(src, opt) :
          nv[1] = schema.ent[k].Key /\ nv[2] # NilV /\ nv[2] # NilPtr

\* C5 amended: an element whose value is the nil interface value never
\* appears in the parent Result, every key of the Result comes from a
\* matched element that is not the nil interface value; a nil pointer is
\* not omitted: an entry whose Key matches it puts its output key in the
\* Result, mapped to nil.
C5_NilInterfaceOmitted ==
  ReturnedResult =>
    /\ \A k \in DOMAIN out.res.m :
         \E nv \in Elements(src, opt) :
            nv[1] = schema.ent[k].Key /\ nv[2] # NilV
    /\ \A k \in DOMAIN schema.ent :
         (\E nv \in Elements(src, opt) :
             nv[1] = schema.ent[k].Key /\ nv[2] = NilPtr)
           => (k \in DOMAIN out.res.m /\ out.res.m[k] = NilV)

\* one entry matches a nil interface value, another a nil pointer
C5_Witness ==
  /\ ReturnedResult
  /\ \E k \in DOMAIN schema.ent :
       \E nv \in Elements(src, opt) : nv[1] = schema.ent[k].Key /\ nv[2] = NilV
  /\ \E k \in DOMAIN schema.ent :
       \E nv \in Elements(src, opt) : nv[1] = schema.ent[k].Key /\ nv[2] = NilPtr
  /\ Cardinality(DOMAIN out.res.m) = 1

----------------------------------------------------------------------------
(* C6 *)

\* C6: transformStruct of a struct with a field holding a nil pointer, and
\* a schema entry with a nested schema whose Key is that field's tag,
\* returns no error and a Result with the entry's output key mapped to nil,
\* next to the entries of the other matched fields.
C6_NilPointerField ==
  (Done("transformStruct") /\ IsRecord(src)) =>
    \A k \in DOMAIN schema.ent : \A i \in 1..Len(src.f) :
       ( /\ src.f[i] = NilPtr
         /\ schema.ent[k].Value.has
         /\ Annotated(src.ty, i, opt)
         /\ StructType[src.ty][i].Tag[opt] = schema.ent[k].Key )
       =>
       /\ out.err = NoErr
       /\ out.res.k = "result"
       /\ k \in DOMAIN out.res.m
       /\ out.res.m[k] = NilV
       /\ \A k2 \in DOMAIN schema.ent : \A j \in (1..Len(src.f)) \ {i} :
            ( /\ src.f[j] # NilV
              /\ Annotated(src.ty, j, opt)
              /\ StructType[src.ty][j].Tag[opt] = schema.ent[k2].Key )
            => k2 \in DOMAIN out.res.m

\* the case of the test: a scalar field and a nil pointer field, both
\* matched, the pointer by an entry with a nested schema
C6_Witness ==
  /\ Done("transformStruct")
  /\ src = StructV("Pair", << S1, NilPtr >>)
  /\ opt = "json"
  /\ DOMAIN schema.ent = {"a", "b"}
  /\ schema.ent["a"] = SchemaField("b", HasSchema(SchemaOf([a |-> SchemaField("b", NoSchema)])))
  /\ schema.ent["b"] = SchemaField("a", NoSchema)
  /\ out = Ret(ResultV([a |-> NilV, b |-> S1]), NoErr)

----------------------------------------------------------------------------
(* C7 *)

\* C7: multi-match fan-out.  When two entries of one schema have the same
\* Key and a non-nil element of the struct or map has that external name,
\* the Result has both output keys, each mapped to the transform of the
\* element's value under that entry's own schema scope.
C7_FanOut ==
  ( /\ pc = "done" /\ op \in {"Transform", "transformStruct", "transformMap"}
    /\ (IsRecord(src) \/ src.k = "map") ) =>
    \A k1 \in DOMAIN schema.ent : \A k2 \in (DOMAIN schema.ent) \ {k1} :
      \A nv \in Elements(src, opt) :
        ( /\ schema.ent[k1].Key = schema.ent[k2].Key
          /\ nv[1] = schema.ent[k1].Key
          /\ nv[2] # NilV /\ nv[2] # NilPtr )
        =>
        /\ out.err = NoErr
        /\ out.res.k = "result"
        /\ {k1, k2} \subseteq DOMAIN out.res.m
        /\ \A k \in {k1, k2} : \A ord \in Orders :
             out.res.m[k] =
               transformValue(nv[2], getDataType(nv[2]),
                              schemaScope(schema.ent[k], schema), opt, ord).res

\* two entries match the same struct-valued map entry, one with a nested
\* schema and one without, and the two copies are transformed differently
C7_Witness ==
  /\ Done("Transform") /\ src.k = "map" /\ out.res.k = "result"
  /\ DOMAIN schema.ent = {"a", "b"}
  /\ schema.ent["a"].Key = schema.ent["b"].Key
  /\ schema.ent["a"].Key \in DOMAIN src.m
  /\ src.m[schema.ent["a"].Key].k = "struct"
  /\ DOMAIN out.res.m = {"a", "b"}
  /\ out.res.m["a"] # out.res.m["b"]

----------------------------------------------------------------------------
(* C8 *)

\* what a nested value becomes under a schema scope: a scalar is kept, a
\* pointer stands for its pointee, a struct, map, slice or array becomes
\* what Transform makes of it alone
Projected(v, scope, tag, ord) ==
  LET w == IF v.k = "ptr" THEN v.e ELSE v
  IN  IF w.k = "other" THEN w ELSE Transform(w, scope, tag, ord).res

\* C8: schema scoping.  A matched element whose value is a struct, map,
\* slice, array or pointer is transformed under the entry's nested schema
\* when the entry has one and under the enclosing schema when it has none;
\* a nested record under an entry without nested schema keeps only keys of
\* the enclosing schema.
C8_SchemaScoping ==
  ( /\ pc = "done" /\ op \in {"Transform", "transformStruct", "transformMap"}
    /\ (IsRecord(src) \/ src.k = "map") ) =>
    \A k \in DOMAIN schema.ent : \A nv \in Elements(src, opt) :
      ( /\ nv[1] = schema.ent[k].Key
        /\ (IsRecord(nv[2]) \/ nv[2].k \in {"map", "slice", "array", "ptr"}) )
      =>
      /\ out.err = NoErr
      /\ out.res.k = "result"
      /\ k \in DOMAIN out.res.m
      /\ \A ord \in Orders :
           out.res.m[k] =
             Projected(nv[2],
                       IF schema.ent[k].Value.has THEN schema.ent[k].Value.s
                                                  ELSE schema,
                       opt, ord)
      /\ (~schema.ent[k].Value.has /\ IsRecord(nv[2])) =>
           DOMAIN out.res.m[k].m \subseteq DOMAIN schema.ent

\* a struct with two nested structs, one matched by an entry with a nested
\* schema, the other by an entry without: the two are projected differently
C8_Witness ==
  /\ Done("Transform")
  /\ src = StructV("Pair", << StructV("Pair", << S1, I0 >>),
                              StructV("Pair", << S1, I0 >>) >>)
  /\ opt = "json"
  /\ DOMAIN schema.ent = {"a", "b"}
  /\ schema.ent["a"] = SchemaField("a", HasSchema(SchemaOf([a |-> SchemaField("b", NoSchema)])))
  /\ schema.ent["b"] = SchemaField("b", NoSchema)
  /\ out.res = ResultV([a |-> ResultV([a |-> I0]),
                        b |-> ResultV([a |-> S1, b |-> I0])])

----------------------------------------------------------------------------
(* C9 *)

IsCollection(s) == s.k \in {"slice", "array"}

\* C9: collection homogeneity.  Transform of a slice or array whose
\* elements are all structs or all maps returns no error and a sequence of
\* the length of the source whose i-th element is the Result of
\* transforming the i-th element alone under the same schema.
C9_CollectionHomogeneity ==
  ( /\ Done("Transform") /\ IsCollection(src)
    /\ \/ \A i \in 1..Len(src.e) : IsRecord(src.e[i])
       \/ \A i \in 1..Len(src.e) : src.e[i].k = "map" ) =>
    /\ out.err = NoErr
    /\ out.res.k = "list"
    /\ Len(out.res.e) = Len(src.e)
    /\ \A i \in 1..Len(src.e) : \A ord \in Orders :
         LET alone == Transform(src.e[i], schema, opt, ord)
         IN  alone.err = NoErr /\ alone.res.k = "result" /\ out.res.e[i] = alone.res

\* two different structs whose Results differ, in the order of the source
C9_Witness ==
  /\ Done("Transform") /\ IsCollection(src) /\ Len(src.e) = 2
  /\ IsRecord(src.e[1]) /\ IsRecord(src.e[2]) /\ src.e[1] # src.e[2]
  /\ out.res.k = "list" /\ Len(out.res.e) = 2
  /\ out.res.e[1] # out.res.e[2]
  /\ out.res.e[2].m = NoEntries

----------------------------------------------------------------------------
(* C10 *)

ScalarCollection(s) ==
  IsCollection(s) /\ \A i \in 1..Len(s.e) : s.e[i].k = "other"

\* C10 as stated: Transform of a top-level slice or array of opaque scalars
\* returns an empty sequence and no error.
C10_Original ==
  (Done("Transform") /\ ScalarCollection(src)) => out = Ret(ListV(<< >>), NoErr)

\* C10 amended: Transform of a top-level slice or array of opaque scalars
\* returns, for every schema, no error and the sequence of the same
\* scalars in the same order: every scalar element appears in the output.
C10_ScalarsKept ==
  (Done("Transform") /\ ScalarCollection(src)) => out = Ret(ListV(src.e), NoErr)

C10_Witness ==
  /\ Done("Transform") /\ ScalarCollection(src)
  /\ Len(src.e) = 2 /\ src.e[1] # src.e[2]
  /\ schema.ent # NilSchema.ent
  /\ out.res = ListV(src.e)

----------------------------------------------------------------------------
(* C11 *)

\* C11 as stated: transforming any Result returned by Transform with its
\* identity schema returns no error and a Result equal to it.
C11_Original == Done("Reproject") => out = Ret(src, NoErr)

\* the Result holds no nil-valued entry and no nested Result, neither as a
\* value nor inside a sequence
NoNilNoNested(r) ==
  \A k \in DOMAIN r.m :
     /\ r.m[k] # NilV
     /\ r.m[k].k # "result"
     /\ r.m[k].k = "list" => \A i \in 1..Len(r.m[k].e) : r.m[k].e[i].k # "result"

\* C11 amended: for every Result R returned by Transform that holds no
\* nil-valued entry and no nested Result (neither as a value nor inside a
\* sequence), transforming R with the identity schema returns no error and
\* a Result equal to R.
C11_FlatIdempotent ==
  (Done("Reproject") /\ NoNilNoNested(src)) => out = Ret(src, NoErr)

\* a Result with a scalar and a sequence of scalars
C11_Witness ==
  /\ Done("Reproject") /\ NoNilNoNested(src)
  /\ DOMAIN src.m = {"a", "b"}
  /\ src.m["a"].k = "list" /\ Len(src.m["a"].e) = 2
  /\ src.m["b"].k = "other"
  /\ out.res = src

----------------------------------------------------------------------------
(* C12 *)

\* the tag name in force: the one of the most recent SetOpt, "json" when
\* SetOpt has not been called
Configured == IF lastSetOpt = NoCall THEN "json" ELSE lastSetOpt

\* C12: tag configuration over a sequence of calls.  Each Transform
\* resolves the external names of struct fields under the tag name of the
\* most recent preceding SetOpt, or under "json" when there was none: an
\* entry with a non-empty Key is in the Result exactly when a non-nil field
\* carries that Key as annotation under that tag name; annotations under
\* another tag name never match.
C12_TagConfiguration ==
  (pc = "done" /\ op \in {"Transform", "transformStruct"} /\ IsRecord(src)) =>
    /\ out.err = NoErr
    /\ out.res.k = "result"
    /\ \A k \in DOMAIN schema.ent :
         schema.ent[k].Key # "" =>
           ( k \in DOMAIN out.res.m
             <=> \E i \in 1..Len(src.f) :
                    /\ Annotated(src.ty, i, Configured)
                    /\ StructType[src.ty][i].Tag[Configured] = schema.ent[k].Key
                    /\ src.f[i] # NilV )

\* after SetOpt with the custom tag name the Key "b" selects the first
\* field (schema:"b"), not the second one (json:"b")
C12_Witness ==
  /\ Done("Transform") /\ lastSetOpt = "schema"
  /\ src = StructV("Pair", << S1, I0 >>)
  /\ schema = SchemaOf([a |-> SchemaField("b", NoSchema)])
  /\ out = Ret(ResultV([a |-> S1]), NoErr)

----------------------------------------------------------------------------
(* C13 *)

\* C13: no partial result on error.  Whenever Transform returns a non-nil
\* error the result it returns is nil.
C13_NoPartialResult ==
  (pc = "done" /\ op \in {"Transform", "Reproject"} /\ Returned /\ out.err # NoErr)
    => out.res = NilV

C13_Witness ==
  /\ Done("Transform") /\ out.err = ErrUnknownType /\ out.res = NilV
  /\ src = I0 /\ Cardinality(DOMAIN schema.ent) = 2

----------------------------------------------------------------------------
(* C14 *)

\* a direct call of transformStruct on a struct with a field that carries
\* no annotation under the configured tag name, with a non-empty schema
MissingAnnotationCall ==
  /\ Done("transformStruct") /\ IsRecord(src)
  /\ \E i \in 1..Len(src.f) : ~Annotated(src.ty, i, opt)
  /\ DOMAIN schema.ent # {}

----------------------------------------------------------------------------
(* C15 *)

\* C15: a struct field without annotation under the configured tag name is
\* skipped silently: for every schema, also one with an entry whose Key is
\* the empty string, every entry of the Result comes from a non-nil field
\* that carries the entry's Key as annotation.
C15_Original ==
  ( /\ pc = "done" /\ op \in {"Transform", "transformStruct"}
    /\ IsRecord(src) /\ out.err = NoErr ) =>
    \A k \in DOMAIN out.res.m :
       \E i \in 1..Len(src.f) :
          /\ Annotated(src.ty, i, opt)
          /\ StructType[src.ty][i].Tag[opt] = schema.ent[k].Key
          /\ src.f[i] # NilV

----------------------------------------------------------------------------
(* C16 *)

\* the Key of entry k is the external name of some element of the source
Matched(k) == \E nv \in Elements(src, opt) : nv[1] = schema.ent[k].Key

----------------------------------------------------------------------------
(* C17 *)

RECURSIVE IsZeroValue(_)
\* reflect's zero value of the type
IsZeroValue(v) ==
  CASE v.k \in {"nil", "nilptr"} -> TRUE
    [] v.k = "other" -> v.v = 0
    [] v.k = "struct" -> \A i \in 1..Len(v.f) : IsZeroValue(v.f[i])
    [] v.k = "array" -> \A i \in 1..Len(v.e) : IsZeroValue(v.e[i])
    [] OTHER -> FALSE

\* a non-nil pointer to a non-zero struct, map or scalar
PointsToValue(p) ==
  p.k = "ptr" /\ p.e.k \in {"struct", "map", "other"} /\ ~IsZeroValue(p.e)

PointsToScalar(p) == PointsToValue(p) /\ p.e.k = "other"

Pointee(v) == IF PointsToValue(v) THEN v.e ELSE v

\* the elements of a struct, map or collection
Children(s) ==
  CASE s.k = "struct" -> {s.f[i] : i \in 1..Len(s.f)}
    [] s.k = "map" -> {s.m[key] : key \in DOMAIN s.m}
    [] s.k \in {"slice", "array"} -> {s.e[i] : i \in 1..Len(s.e)}
    [] OTHER -> {}

\* the source with every such pointer among its elements replaced by its
\* pointee
Dereferenced(s) ==
  CASE s.k = "struct" -> StructV(s.ty, [i \in 1..Len(s.f) |-> Pointee(s.f[i])])
    [] s.k = "map" -> MapV([key \in DOMAIN s.m |-> Pointee(s.m[key])])
    [] s.k \in {"slice", "array"} ->
         [k |-> s.k, e |-> [i \in 1..Len(s.e) |-> Pointee(s.e[i])]]
    [] OTHER -> s

NotPointerToScalar(v) == ~PointsToScalar(v)

\* the same, a collection first losing its elements that point to scalars
DereferencedKept(s) ==
  IF s.k \in {"slice", "array"}
    THEN Dereferenced([k |-> s.k, e |-> SelectSeq(s.e, NotPointerToScalar)])
    ELSE Dereferenced(s)

HasPointerElement ==
  /\ Done("Transform")
  /\ (IsRecord(src) \/ src.k \in {"map", "slice", "array"})
  /\ \E c \in Children(src) : PointsToValue(c)

\* C17 as stated: a struct field, map entry or collection element that is
\* a non-nil pointer to a non-zero struct, map or scalar is transformed
\* exactly as its pointee: the call returns what it returns for the source
\* with the pointees in place of the pointers.
C17_Original ==
  HasPointerElement =>
    \A ord \in Orders : out = Transform(Dereferenced(src), schema, opt, ord)

\* C17 amended: a struct field or map entry that is a non-nil pointer to a
\* non-zero struct, map or scalar is transformed exactly as its pointee
\* under the same schema scope, and so is a collection element that points
\* to a struct or a map; a collection element that points to a scalar is
\* dropped from the output sequence.
C17_PointerTransparency ==
  HasPointerElement =>
    \A ord \in Orders : out = Transform(DereferencedKept(src), schema, opt, ord)

\* a slice of a pointer to a struct and a pointer to a scalar: one Result
C17_Witness ==
  /\ HasPointerElement
  /\ src = SliceV(<< PtrTo(StructV("Pair", << S1, I0 >>)), PtrTo(S1) >>)
  /\ out.res.k = "list" /\ Len(out.res.e) = 1
  /\ out.res.e[1].k = "result" /\ out.res.e[1].m # NoEntries

----------------------------------------------------------------------------
(* C18 *)

\* C18: a non-nil pointer whose pointee is the zero value of its type is
\* treated as absence: an entry that matches a field or map entry holding
\* such a pointer gets no value in the Result.
C18_Original ==
  ( /\ pc = "done" /\ op \in {"Transform", "transformStruct", "transformMap"}
    /\ (IsRecord(src) \/ src.k = "map") ) =>
    \A k \in DOMAIN schema.ent : \A nv \in Elements(src, opt) :
      ( /\ nv[1] = schema.ent[k].Key
        /\ nv[2].k = "ptr" /\ nv[2].e.k = "other" /\ nv[2].e.v = 0 )
      => /\ out.err = NoErr
         /\ (k \notin DOMAIN out.res.m \/ out.res.m[k] = NilV)

----------------------------------------------------------------------------
(* C19 *)

\* C19: a struct field holding a slice of opaque scalars that is matched
\* by a schema entry appears in the Result under the entry's output key as
\* the sequence of the same scalars in the same order.
C19_ScalarSliceField ==
  ( /\ pc = "done" /\ op \in {"Transform", "transformStruct"}
    /\ IsRecord(src) ) =>
    \A k \in DOMAIN schema.ent : \A i \in 1..Len(src.f) :
      ( /\ tagLookup(src.ty, StructType[src.ty][i].Name, opt).tag = schema.ent[k].Key
        /\ src.f[i].k = "slice"
        /\ \A j \in 1..Len(src.f[i].e) : src.f[i].e[j].k = "other" )
      => /\ out.err = NoErr
         /\ k \in DOMAIN out.res.m
         /\ out.res.m[k] = ListV(src.f[i].e)

\* the case of the test: the slice of scalars next to a scalar field
C19_Witness ==
  /\ Done("transformStruct") /\ opt = "json"
  /\ src = StructV("Pair", << S1, SliceV(<< S1, I0 >>) >>)
  /\ schema = SchemaOf([a |-> SchemaField("b", NoSchema), b |-> SchemaField("a", NoSchema)])
  /\ out = Ret(ResultV([a |-> ListV(<< S1, I0 >>), b |-> S1]), NoErr)

----------------------------------------------------------------------------
(* C20 *)

RECURSIVE AsSlices(_)
\* the value with every array, at every depth, replaced by the slice of
\* the same elements
AsSlices(v) ==
  CASE v.k \in {"slice", "array"} -> SliceV([i \in 1..Len(v.e) |-> AsSlices(v.e[i])])
    [] v.k = "struct" -> StructV(v.ty, [i \in 1..Len(v.f) |-> AsSlices(v.f[i])])
    [] v.k = "map" -> MapV([key \in DOMAIN v.m |-> AsSlices(v.m[key])])
    [] v.k = "ptr" -> PtrTo(AsSlices(v.e))
    [] OTHER -> v

\* C20: slices and arrays are handled identically.  Transform returns for
\* a source the error and the result it returns for the same source with
\* slices in place of its arrays, at the top level and nested.
C20_ArraysAsSlices ==
  Done("Transform") =>
    \A ord \in Orders : out = Transform(AsSlices(src), schema, opt, ord)

\* a top-level array of two structs
C20_Witness ==
  /\ Done("Transform") /\ src.k = "array" /\ Len(src.e) = 2
  /\ IsRecord(src.e[1]) /\ IsRecord(src.e[2])
  /\ out.res.k = "list" /\ Len(out.res.e) = 2
  /\ out.res.e[1] # ResultV(NoEntries)

----------------------------------------------------------------------------
(* C21 *)

\* a struct, a map, a slice, or a non-nil pointer to one of them
PassedType(s) ==
  \/ s.k \in {"struct", "map", "slice"}
  \/ s.k = "ptr" /\ s.e.k \in {"struct", "map", "slice"}

\* C21: with a nil schema Transform returns a nil error for a top-level
\* struct, map or slice, for a top-level pointer to a struct, a map or a
\* slice, and for a slice whose elements are nil pointers to structs.
C21_NilErrorForPassedTypes ==
  (Done("Transform") /\ schema = NilSchema /\ PassedType(src)) => out.err = NoErr

\* Transform(&src, nil) of the test
C21_Witness ==
  /\ Done("Transform") /\ schema = NilSchema
  /\ src = PtrTo(StructV("Pair", << S1, I0 >>))
  /\ out.err = NoErr

----------------------------------------------------------------------------
(* C22 *)

\* C22: purity.  A Transform call changes neither the source value, nor
\* the schema, nor the engine's tag-name configuration: all three are the
\* same before and after the call, whether it returns a result or an
\* error.
C22_Purity ==
  [][(pc = "ready" /\ pc' = "done" /\ op' = "Transform")
       => (src' = src /\ schema' = schema /\ opt' = opt)]_vars

\* a call on an engine configured with the other tag has returned a Result
C22_Witness ==
  /\ Done("Transform") /\ opt = "schema"
  /\ out.err = NoErr /\ out.res.k = "result" /\ out.res.m # NoEntries

----------------------------------------------------------------------------
(* C23 *)

\* C23: determinism.  What Transform returned is what it returns for the
\* source, the schema and the configured tag under every iteration order
\* of the keys of the source maps and of the entries of the schemas,
\* whatever SetOpt and Transform calls ran before on the engine.
C23_Determinism ==
  Done("Transform") =>
    \A ord \in Orders : out = Transform(src, schema, opt, ord)

\* a map of two entries under a schema of two entries, after a SetOpt
C23_Witness ==
  /\ Done("Transform") /\ lastSetOpt # NoCall
  /\ src.k = "map" /\ Cardinality(DOMAIN src.m) = 2
  /\ Cardinality(DOMAIN schema.ent) = 2
  /\ out.err = NoErr /\ out.res.k = "result"
  /\ Cardinality(DOMAIN out.res.m) = 2

----------------------------------------------------------------------------
(* C27 *)

\* C27: Transform of a top-level non-nil pointer to a struct, to a map or
\* to a slice returns the same result as Transform of the pointee itself
\* under the same schema.
C27_Original ==
  (Done("Transform") /\ src.k = "ptr" /\ src.e.k \in {"struct", "map", "slice"}) =>
    \A ord \in Orders : out.res = Transform(src.e, schema, opt, ord).res

----------------------------------------------------------------------------
(* C28 *)

DataTypes == {Struct, Map, Slice, Array, Pointer, Other, Nil}

\* the source of a call and its elements
Classified == {src} \cup Children(src)

\* C28: kind classification is total and raises no error.  It returns Nil
\* for the nil value, Struct for a struct, Map for a map, Slice for a
\* slice, Array for an array, Pointer for a value of a pointer type
\* whatever the pointee (a struct, a map, a slice, a scalar, or none for
\* the nil pointer), and Other for every other value.
C28_Classification ==
  pc = "done" =>
    \A v \in Classified :
      /\ getDataType(v) \in DataTypes
      /\ (v = NilV) <=> (getDataType(v) = Nil)
      /\ (v.k = "struct") <=> (getDataType(v) = Struct)
      /\ (v.k \in {"map", "result"}) <=> (getDataType(v) = Map)
      /\ (v.k \in {"slice", "list"}) <=> (getDataType(v) = Slice)
      /\ (v.k = "array") <=> (getDataType(v) = Array)
      /\ (v.k \in {"ptr", "nilptr"}) <=> (getDataType(v) = Pointer)
      /\ (v.k = "other") <=> (getDataType(v) = Other)

\* a pointer to a scalar is a Pointer, not Other: Transform does not
\* reject it; and an array is classified next to a pointer to a struct
C28_Witness ==
  \/ /\ Done("Transform") /\ src = PtrTo(S1) /\ out = Ret(NilV, NoErr)
     /\ getDataType(src) = Pointer /\ getDataType(src.e) = Other
  \/ /\ Done("Transform") /\ src.k = "array" /\ Len(src.e) = 2
     /\ src.e[1].k = "ptr" /\ src.e[2].k = "struct"
     /\ getDataType(src) = Array /\ getDataType(src.e[1]) = Pointer

----------------------------------------------------------------------------
(* C29 *)

\* C29: Transform returns a non-nil error only when the top-level source
\* is an opaque scalar: for every top-level struct, map, slice, array,
\* pointer or nil source, every schema and every tag name, it returns a
\* nil error.
C29_Original ==
  (Done("Transform") /\ getDataType(src) # Other) => out.err = NoErr

----------------------------------------------------------------------------
(* C30 *)

IsPrimitive(v) ==
  \/ v.k = "other" /\ v.t \in Primitives
  \/ v.k = "struct" /\ v.ty = "Time"

\* C30: shouldSkipTransform returns true for every primitive scalar
\* (timestamp, string, boolean, integer, unsigned integer, float,
\* complex), for every pointer to such a primitive scalar, and for every
\* slice of such primitive scalars.
C30_Original ==
  ( /\ Done("shouldSkipTransform")
    /\ \/ IsPrimitive(src)
       \/ src.k = "ptr" /\ IsPrimitive(src.e)
       \/ src \in TypedSlices )
  => out.res = Bool(TRUE)

----------------------------------------------------------------------------
(* C24 *)

Max(S) == CHOOSE x \in S : \A y \in S : y <= x

RECURSIVE NestingDepth(_)
\* the nesting depth of a source: the struct, map, collection and pointer
\* levels on its longest path (a nil pointer is a pointer level)
NestingDepth(v) ==
  CASE v.k \in {"struct", "map", "slice", "array"} ->
         1 + Max({0} \cup {NestingDepth(c) : c \in Children(v)})
    [] v.k = "ptr" -> 1 + NestingDepth(v.e)
    [] v.k = "nilptr" -> 1
    [] OTHER -> 0

\* the depth of the recursion: the activations of transformValue, through
\* which the engine re-enters itself, that are on the stack
RecursionDepth(pr) ==
  Cardinality({n \in 1..Len(pr.stack) : pr.stack[n].fn = "transformValue"})

\* C24: termination.  For every source and every schema a Transform call
\* in flight eventually returns, and the depth of its recursion never
\* exceeds the nesting depth of the source.
C24_Termination ==
  /\ [](RecursionDepth(proc["p"]) <= NestingDepth(proc["p"].src))
  /\ (proc["p"].st = "run") ~> (proc["p"].st = "done")

\* a call at the full depth of its source, which nests a pointer in a
\* struct in a collection or deeper
C24_Witness ==
  /\ proc["p"].st = "run"
  /\ NestingDepth(proc["p"].src) >= 3
  /\ RecursionDepth(proc["p"]) = NestingDepth(proc["p"].src)

----------------------------------------------------------------------------
(* C25 *)

\* C25: concurrent Transform calls, on distinct engines or on one shared
\* engine, with no SetOpt call executing while any of them is in flight,
\* each return what the same call returns when it runs alone, under every
\* interleaving of their steps.
C25_ConcurrentTransforms ==
  \A p \in Procs :
    (proc[p].st = "done" /\ ~midflight) =>
      \A ord \in Orders :
        proc[p].res = Transform(proc[p].src, proc[p].sch, proc[p].tag0, ord)

\* two calls on the shared engine, configured before they started, have
\* returned Results after steps of one while the other was in flight
C25_Witness ==
  /\ \A p \in Procs :
       /\ proc[p].st = "done" /\ proc[p].e = "e1" /\ proc[p].tag0 = "schema"
       /\ proc[p].res.err = NoErr /\ proc[p].res.res.k = "result"
       /\ proc[p].res.res.m # NoEntries
  /\ overlap /\ ~midflight

----------------------------------------------------------------------------
(* C26 *)

\* the next step of the call is a tag lookup of transformStruct
LooksUp(pr) ==
  /\ pr.st = "run" /\ pr.ret = NoOut
  /\ Top(pr).fn = "transformStruct"
  /\ Top(pr).i <= Len(StructType[Top(pr).s.ty])
  /\ Top(pr).j <= Cardinality(DOMAIN Top(pr).sch.ent)

\* C26: the configuration setter is not synchronized with Transform.  The
\* tag name is read again at every field lookup: each lookup of a call in
\* flight resolves under the tag name the engine holds at that moment, so
\* that a call during which SetOpt executes can resolve some fields under
\* the old tag name and others under the new one.
C26_TagReadAtEveryLookup ==
  [][\A p \in Procs :
       (LooksUp(proc[p]) /\ proc'[p] # proc[p])
         => proc'[p].tags = proc[p].tags \cup {eng[proc[p].e]}]_vars

\* a call that resolved fields under both tag names, SetOpt having
\* executed while it was in flight, and returned what it returns under
\* neither of them
C26_Witness ==
  /\ proc["p"].st = "done" /\ midflight
  /\ proc["p"].tags = {"json", "schema"}
  /\ proc["p"].src = StructV("Pair", << S1, I0 >>)
  /\ proc["p"].res.err = NoErr
  /\ \A t \in TagNames : \A ord \in Orders :
       proc["p"].res # Transform(proc["p"].src, proc["p"].sch, t, ord)

====
